---- MODULE Spec2Model ----
(***************************************************************************)
(* Order / payment reconciliation of the shop backend.                     *)
(*                                                                         *)
(* routes/orders.js holds several revisions of the order router.  Three    *)
(* are modelled here; the variable rev says which one is deployed:         *)
(*   - the Razorpay revision (src/routes/orders.js 464-1121): request      *)
(*     handlers are split at every await, so that two requests interleave  *)
(*     their store reads and writes;                                       *)
(*   - the PhonePe revision (src/routes/orders.js 30-463);                 *)
(*   - the deferred-save Razorpay revision (src/unnamed/part_005), which   *)
(*     stores a Razorpay order only when its payment is verified.          *)
(* Money is counted in paise (1/100 rupee), so the 0.01 tolerance of the   *)
(* code is one unit.  Time is counted in minutes.                          *)
(***************************************************************************)
EXTENDS Integers, Sequences, FiniteSets, TLC

(***************************************************************************)
(* Bounds of the model.                                                    *)
(***************************************************************************)
NumProcs == 2
MaxDocs == 2
MaxGatewayOrders == 2
MaxMails == 2
MaxNow == 1500
TickMinutes == 15
MaxClients == 3

(***************************************************************************)
(* Program constants.                                                      *)
(***************************************************************************)
Paise == 100
FreeShippingFrom == 800
ReducedShippingFrom == 500
ReducedShippingCost == 50
StandardShippingCost == 80
MinTotal == 1
MinGatewayAmount == 100
ORDER_TIMEOUT_MINUTES == 30
RetentionMinutes == 1440
InitialRetries == 5
InitialDelay == 5000

Procs == 1..NumProcs
DocIds == 1..MaxDocs
\* The order ids requests name; the concurrent specifications use the first.
OrderIds == {"A", "B"}
OneOrder == {"A"}

Abs(x) == IF x < 0 THEN 0 - x ELSE x
Max(a, b) == IF a >= b THEN a ELSE b

(***************************************************************************)
(* Pure helpers of the Razorpay revision.                                  *)
(***************************************************************************)
RECURSIVE Subtotal(_)
Subtotal(items) ==
  IF items = << >> THEN 0
  ELSE Head(items).price * Head(items).quantity + Subtotal(Tail(items))

calculateShippingCostFlat(subtotal) == StandardShippingCost * Paise

calculateShippingCostStrict(subtotal) ==
  IF subtotal > FreeShippingFrom * Paise THEN 0
  ELSE IF subtotal > ReducedShippingFrom * Paise THEN ReducedShippingCost * Paise
  ELSE StandardShippingCost * Paise

calculateShippingCost(subtotal) ==
  IF subtotal >= FreeShippingFrom * Paise THEN 0
  ELSE IF subtotal >= ReducedShippingFrom * Paise THEN ReducedShippingCost * Paise
  ELSE StandardShippingCost * Paise

\* String.prototype.toUpperCase on the coupon codes clients send.
ToUpperCase(code) == IF code = "freeshipping" THEN "FREESHIPPING" ELSE code

IsFreeShippingExact(code) == code = "FREESHIPPING"

IsFreeShipping(code) == code # "" /\ ToUpperCase(code) = "FREESHIPPING"

validateOrderTotals(o) ==
  LET subtotal == Subtotal(o.items)
      expectedShippingCost == calculateShippingCost(subtotal)
      free == IsFreeShipping(o.couponCode)
      shippingCost == IF free THEN 0 ELSE expectedShippingCost
      couponDiscount == IF free THEN expectedShippingCost ELSE 0
  IN [subtotal |-> subtotal,
      shippingCost |-> shippingCost,
      couponDiscount |-> couponDiscount,
      calculatedTotal |-> Max(MinTotal * Paise, subtotal + shippingCost - couponDiscount),
      expectedShippingCost |-> expectedShippingCost]

\* Math.abs(a - b) > 0.01 on doubles: a difference of exactly 0.01 rupee falls
\* on either side of the comparison, depending on the binary rounding of the
\* operands (930.01 - 930 < 0.01 < 100.01 - 100).
ExceedsTolerance(a, b) ==
  IF Abs(a - b) > 1 THEN {TRUE}
  ELSE IF Abs(a - b) = 1 THEN {TRUE, FALSE}
  ELSE {FALSE}

isOrderValidNoTimeout(createdAt, clock) == TRUE

isOrderValid(createdAt, clock) == clock - createdAt <= ORDER_TIMEOUT_MINUTES

\* crypto.createHmac('sha256', key).update(`${order_id}|${payment_id}`).digest('hex')
Hmac(key, orderRef, paymentRef) == [key |-> key, msg |-> <<orderRef, "|", paymentRef>>]

\* sha256(`${response}/pg/v1/status${saltKey}`) + `###${saltIndex}`
Checksum(saltKey, response) ==
  [hash |-> <<response, "/pg/v1/status", saltKey>>, index |-> "1"]

VARIABLES
  rev,         \* the revision of the order router that is deployed
  orders,      \* the Order collection: document id -> document, or NoDoc
  nextDoc,     \* the next document id the store hands out
  rzp,         \* Razorpay's orders: sequence of [amount, receipt, paid]
  pp,          \* PhonePe's transactions: sequence of [amount, state]
  proc,        \* the request each worker slot is handling
  now,         \* wall clock, in minutes
  mails,       \* confirmation emails delivered, per orderId
  paidWrites,  \* saves that wrote the paid status to a stored order, per orderId
  accepted,    \* the verification reports answered with 200 so far
  db,          \* connectDB: phase, retries left, delay, attempts made, waits set
  conns,       \* /api/order-updates connections: socket state and token presented
  clients      \* global.clients: the registered SSE clients

vars == <<rev, orders, nextDoc, rzp, pp, proc, now, mails, paidWrites, accepted,
          db, conns, clients>>

NoDoc == [orderId |-> ""]

NoBody ==
  [fieldsOk |-> FALSE, items |-> << >>, shipCost |-> 0, couponCode |-> "",
   couponDiscount |-> 0, paymentMethod |-> "", total |-> 0]

NoResponse == [txn |-> 0, state |-> "", code |-> ""]

NoReq ==
  [orderId |-> "", ref |-> 0, pid |-> 0, sig |-> Hmac("", 0, 0), body |-> NoBody,
   amount |-> 0, response |-> NoResponse, xVerify |-> Checksum("", NoResponse)]

IdleProc ==
  [pc |-> "idle", kind |-> "none", req |-> NoReq, id |-> 0, doc |-> NoDoc,
   resp |-> 0, wrote |-> FALSE, mailed |-> FALSE]

Stored == {d \in DocIds : orders[d] # NoDoc}

\* Order.findOne(filter), given the stored documents the filter accepts: the
\* first of them, 0 for null.
FindOne(hits) ==
  IF hits = {} THEN 0 ELSE CHOOSE d \in hits : \A e \in hits : d <= e

Min(a, b) == IF a <= b THEN a ELSE b

Bump(count, o) == [count EXCEPT ![o] = Min(count[o] + 1, MaxMails)]

Respond(p, status) == [proc[p] EXCEPT !.pc = "done", !.resp = status]

\* A slot takes a request when it is free; requests go to the lowest free slot.
Idle(p) == proc[p].pc = "idle" /\ \A q \in Procs : q < p => proc[q].pc # "idle"

\* doc.save() of a loaded document sends $set of the modified paths to the
\* document's _id; the store applies it, or the call rejects (the connection
\* is lost, the operation times out) and nothing is written.  When the
\* document has been deleted meanwhile the update matches nothing: depending
\* on the Mongoose release save() then resolves silently or rejects with
\* DocumentNotFoundError.
SaveOutcomes(id) == IF orders[id] # NoDoc THEN {"ok", "throws"} ELSE {"noop", "throws"}

(***************************************************************************)
(* Razorpay revision: POST /api/orders                                     *)
(***************************************************************************)
\* The 400 answers of the handler before the totals are compared, as the
\* error that is returned; "" when the request passes them.
CreateRejection(body, totals) ==
  IF ~body.fieldsOk \/ body.items = << >> \/ body.total = 0 \/ body.paymentMethod = ""
    THEN "Missing required fields"
  ELSE IF \E i \in 1..Len(body.items) :
            body.items[i].quantity < 1 \/ body.items[i].price < 0
    THEN "Invalid item quantity or price"
  ELSE IF body.paymentMethod \notin {"COD", "Razorpay"}
    THEN "Invalid payment method"
  ELSE IF IsFreeShipping(body.couponCode) /\ body.shipCost # 0
    THEN "Invalid shipping cost for FREESHIPPING coupon"
  ELSE IF ~IsFreeShipping(body.couponCode) /\ body.shipCost # totals.expectedShippingCost
    THEN "Invalid shipping cost"
  ELSE ""

NewOrder(body, totals, orderId) ==
  [orderId |-> orderId,
   items |-> body.items,
   shipCost |-> body.shipCost,
   couponCode |-> IF IsFreeShipping(body.couponCode) THEN body.couponCode ELSE "",
   couponDiscount |-> IF IsFreeShipping(body.couponCode) THEN totals.couponDiscount ELSE 0,
   paymentMethod |-> body.paymentMethod,
   total |-> body.total,
   paymentStatus |-> IF body.paymentMethod = "COD" THEN "Success" ELSE "Pending",
   emailSent |-> FALSE,
   createdAt |-> now,
   razorpayOrderId |-> 0,
   razorpayPaymentId |-> 0]

\* The unique index on orderId: an insert is refused (E11000) when a stored
\* document holds the same orderId.
DuplicateKeyNoIndex(orderId) == FALSE

DuplicateKey(orderId) == \E d \in Stored : orders[d].orderId = orderId

CreateOrder(p, body, orderId) ==
  /\ rev = "razorpay"
  /\ Idle(p)
  /\ LET totals == validateOrderTotals(body)
         rejection == CreateRejection(body, totals)
         started == [proc[p] EXCEPT !.kind = "create", !.req.body = body,
                                    !.req.orderId = orderId]
     IN \E mismatch \in ExceedsTolerance(totals.calculatedTotal, body.total) :
          IF rejection # "" \/ mismatch
          THEN /\ proc' = [proc EXCEPT ![p] = [started EXCEPT !.pc = "done", !.resp = 400]]
               /\ UNCHANGED <<orders, nextDoc>>
          ELSE IF DuplicateKey(orderId)
          THEN /\ proc' = [proc EXCEPT ![p] = [started EXCEPT !.pc = "done", !.resp = 400]]
               /\ UNCHANGED <<orders, nextDoc>>
          ELSE /\ nextDoc <= MaxDocs
               /\ LET order == NewOrder(body, totals, orderId)
                  IN /\ orders' = [orders EXCEPT ![nextDoc] = order]
                     /\ proc' = [proc EXCEPT ![p] =
                          [started EXCEPT !.id = nextDoc, !.doc = order, !.wrote = TRUE,
                                          !.pc = IF body.paymentMethod = "COD"
                                                 THEN "mail" ELSE "done",
                                          !.resp = IF body.paymentMethod = "COD"
                                                   THEN 0 ELSE 201]]
               /\ nextDoc' = nextDoc + 1
  /\ UNCHANGED <<db, conns, clients, rev, rzp, pp, now, mails, paidWrites, accepted>>

\* generateOrderEmail + sendEmail inside the handler's try block: delivered, or
\* thrown and swallowed by the catch.
CreateMail(p) ==
  /\ proc[p].kind = "create" /\ proc[p].pc = "mail"
  /\ \E delivered \in BOOLEAN :
       IF delivered
       THEN /\ mails' = Bump(mails, proc[p].doc.orderId)
            /\ proc' = [proc EXCEPT ![p].pc = "savemail", ![p].mailed = TRUE,
                                     ![p].doc.emailSent = TRUE]
       ELSE /\ proc' = [proc EXCEPT ![p] = Respond(p, 201)]
            /\ UNCHANGED mails
  /\ UNCHANGED <<db, conns, clients, rev, orders, nextDoc, rzp, pp, now, paidWrites, accepted>>

CreateSaveMail(p) ==
  /\ proc[p].kind = "create" /\ proc[p].pc = "savemail"
  /\ \E outcome \in SaveOutcomes(proc[p].id) :
       orders' = IF outcome = "ok"
                 THEN [orders EXCEPT ![proc[p].id].emailSent = TRUE]
                 ELSE orders
  /\ proc' = [proc EXCEPT ![p] = Respond(p, 201)]
  /\ UNCHANGED <<db, conns, clients, rev, nextDoc, rzp, pp, now, mails, paidWrites, accepted>>

\* The response has been sent; the slot takes the next request.
Finish(p) ==
  /\ proc[p].pc = "done"
  /\ proc' = [proc EXCEPT ![p] = IdleProc]
  /\ UNCHANGED <<db, conns, clients, rev, orders, nextDoc, rzp, pp, now, mails, paidWrites, accepted>>

(***************************************************************************)
(* Razorpay revision: POST /api/orders/initiate-razorpay-payment           *)
(***************************************************************************)
InitiateRejectionSkipped(order, totals, mismatch) == ""

\* The shipping-cost and total re-validation of a stored order.
InitiateRejection(order, totals, mismatch) ==
  IF IsFreeShipping(order.couponCode) /\ order.shipCost # 0
    THEN "Invalid shipping cost for FREESHIPPING coupon"
  ELSE IF ~IsFreeShipping(order.couponCode) /\ order.shipCost # totals.expectedShippingCost
    THEN "Invalid shipping cost"
  ELSE IF mismatch THEN "Invalid order total"
  ELSE ""

InitiateRead(p, orderId) ==
  /\ rev = "razorpay"
  /\ Idle(p)
  /\ LET started == [proc[p] EXCEPT !.kind = "initiate", !.req.orderId = orderId]
         Pending(o) == /\ o.orderId = orderId
                       /\ o.paymentStatus = "Pending"
                       /\ o.paymentMethod = "Razorpay"
         id == FindOne({d \in Stored : Pending(orders[d])})
     IN IF orderId = ""
        THEN proc' = [proc EXCEPT ![p] = [started EXCEPT !.pc = "done", !.resp = 400]]
        ELSE IF id = 0
        THEN proc' = [proc EXCEPT ![p] = [started EXCEPT !.pc = "done", !.resp = 404]]
        ELSE IF ~isOrderValid(orders[id].createdAt, now)
        THEN proc' = [proc EXCEPT ![p] = [started EXCEPT !.pc = "done", !.resp = 400,
                                                          !.id = id, !.doc = orders[id]]]
        ELSE LET totals == validateOrderTotals(orders[id])
             IN \E mismatch \in ExceedsTolerance(totals.calculatedTotal, orders[id].total) :
                  IF InitiateRejection(orders[id], totals, mismatch) # ""
                  THEN proc' = [proc EXCEPT ![p] =
                         [started EXCEPT !.pc = "done", !.resp = 400,
                                         !.id = id, !.doc = orders[id]]]
                  ELSE proc' = [proc EXCEPT ![p] =
                         [started EXCEPT !.pc = "gateway", !.id = id, !.doc = orders[id]]]
  /\ UNCHANGED <<db, conns, clients, rev, orders, nextDoc, rzp, pp, now, mails, paidWrites, accepted>>

\* Math.max(100, Math.round(order.total * 100)): the amount in paise.
GatewayAmount(total) == Max(MinGatewayAmount, total)

InitiateGatewayRetries(p) ==
  /\ proc[p].kind = "initiate" /\ proc[p].pc = "gateway"
  /\ \/ /\ Len(rzp) + 1 < MaxGatewayOrders
        /\ LET created == [amount |-> GatewayAmount(proc[p].doc.total),
                           receipt |-> proc[p].req.orderId,
                           paid |-> FALSE]
           IN rzp' = Append(Append(rzp, created), created)
        /\ proc' = [proc EXCEPT ![p].pc = "save",
                                 ![p].doc.razorpayOrderId = Len(rzp) + 2]
     \/ /\ proc' = [proc EXCEPT ![p] = Respond(p, 500)]
        /\ UNCHANGED rzp
  /\ UNCHANGED <<db, conns, clients, rev, orders, nextDoc, pp, now, mails, paidWrites, accepted>>

\* razorpay.orders.create: the gateway registers an order and returns its id,
\* or the call fails.
InitiateGateway(p) ==
  /\ proc[p].kind = "initiate" /\ proc[p].pc = "gateway"
  /\ \/ /\ Len(rzp) < MaxGatewayOrders
        /\ rzp' = Append(rzp, [amount |-> GatewayAmount(proc[p].doc.total),
                               receipt |-> proc[p].req.orderId,
                               paid |-> FALSE])
        /\ proc' = [proc EXCEPT ![p].pc = "save",
                                 ![p].doc.razorpayOrderId = Len(rzp) + 1]
     \/ /\ proc' = [proc EXCEPT ![p] = Respond(p, 500)]
        /\ UNCHANGED rzp
  /\ UNCHANGED <<db, conns, clients, rev, orders, nextDoc, pp, now, mails, paidWrites, accepted>>

InitiateSave(p) ==
  /\ proc[p].kind = "initiate" /\ proc[p].pc = "save"
  /\ \E outcome \in SaveOutcomes(proc[p].id) :
       /\ orders' = IF outcome = "ok"
                    THEN [orders EXCEPT ![proc[p].id].razorpayOrderId =
                                           proc[p].doc.razorpayOrderId]
                    ELSE orders
       /\ proc' = [proc EXCEPT ![p] =
                     [Respond(p, IF outcome = "throws" THEN 500 ELSE 200)
                        EXCEPT !.wrote = (outcome = "ok")]]
  /\ UNCHANGED <<db, conns, clients, rev, nextDoc, rzp, pp, now, mails, paidWrites, accepted>>

\* The customer pays a gateway order in the checkout; the gateway then hands
\* the client the payment id and its signature over `order_id|payment_id`.
GatewayPay(r) ==
  /\ rev = "razorpay"
  /\ r \in 1..Len(rzp)
  /\ ~rzp[r].paid
  /\ rzp' = [rzp EXCEPT ![r].paid = TRUE]
  /\ UNCHANGED <<db, conns, clients, rev, orders, nextDoc, pp, proc, now, mails, paidWrites, accepted>>

\* The payment id the gateway issues for gateway order r.
PaymentOf(r) == r

\* The signatures a client can present: those the gateway issued, and ones
\* made without the key secret.
KeySecret == "RAZORPAY_KEY_SECRET"

Presentable(ref, pid) ==
  {Hmac(KeySecret, r, PaymentOf(r)) : r \in {x \in 1..Len(rzp) : rzp[x].paid}}
    \cup {Hmac("guess", ref, pid)}

(***************************************************************************)
(* Razorpay revision: POST /api/orders/verify-razorpay-payment             *)
(***************************************************************************)
SignatureOkUnchecked(req) == TRUE

SignatureOk(req) == Hmac(KeySecret, req.ref, req.pid) = req.sig

AlreadyProcessedUnchecked(order) == FALSE

AlreadyProcessed(order) == order.paymentStatus = "Success"

ReferenceMismatchUnchecked(order, req) == FALSE

ReferenceMismatch(order, req) == order.razorpayOrderId # req.ref

Report(req) == <<req.orderId, req.ref, req.pid>>

VerifyRead(p, orderId, ref, pid, sig) ==
  /\ rev = "razorpay"
  /\ Idle(p)
  /\ LET req == [NoReq EXCEPT !.orderId = orderId, !.ref = ref, !.pid = pid, !.sig = sig]
         started == [proc[p] EXCEPT !.kind = "verify", !.req = req]
         ById(o) == o.orderId = orderId
         id == FindOne({d \in Stored : ById(orders[d])})
         Reject(status) == proc' = [proc EXCEPT ![p] =
                             [started EXCEPT !.pc = "done", !.resp = status]]
         RejectRead(status) == proc' = [proc EXCEPT ![p] =
                             [started EXCEPT !.pc = "done", !.resp = status,
                                             !.id = id, !.doc = orders[id]]]
     IN IF orderId = "" \/ ref = 0 \/ pid = 0 THEN Reject(400)
        ELSE IF ~SignatureOk(req) THEN Reject(400)
        ELSE IF id = 0 THEN Reject(404)
        ELSE IF orders[id].paymentMethod # "Razorpay" THEN RejectRead(400)
        ELSE IF AlreadyProcessed(orders[id]) THEN RejectRead(400)
        ELSE IF ReferenceMismatch(orders[id], req) THEN RejectRead(400)
        ELSE IF ~isOrderValid(orders[id].createdAt, now) THEN RejectRead(400)
        ELSE proc' = [proc EXCEPT ![p] =
               [started EXCEPT !.pc = "save", !.id = id,
                               !.doc = [orders[id] EXCEPT !.razorpayPaymentId = pid,
                                                          !.paymentStatus = "Success"]]]
  /\ UNCHANGED <<db, conns, clients, rev, orders, nextDoc, rzp, pp, now, mails, paidWrites, accepted>>

VerifySaveSwallows(p) ==
  /\ proc[p].kind = "verify" /\ proc[p].pc = "save"
  /\ LET id == proc[p].id
         o == proc[p].doc.orderId
     IN \E outcome \in SaveOutcomes(id) :
          /\ orders' = IF outcome = "ok"
                       THEN [orders EXCEPT ![id].razorpayPaymentId = proc[p].doc.razorpayPaymentId,
                                           ![id].paymentStatus = "Success"]
                       ELSE orders
          /\ paidWrites' = IF outcome = "ok" THEN Bump(paidWrites, o) ELSE paidWrites
          /\ IF proc[p].doc.emailSent
             THEN /\ proc' = [proc EXCEPT ![p] = [Respond(p, 200) EXCEPT !.wrote = (outcome = "ok")]]
                  /\ accepted' = accepted \cup {Report(proc[p].req)}
             ELSE /\ proc' = [proc EXCEPT ![p].pc = "mail", ![p].wrote = (outcome = "ok")]
                  /\ UNCHANGED accepted
  /\ UNCHANGED <<db, conns, clients, rev, nextDoc, rzp, pp, now, mails>>

VerifySave(p) ==
  /\ proc[p].kind = "verify" /\ proc[p].pc = "save"
  /\ LET id == proc[p].id
         o == proc[p].doc.orderId
     IN \E outcome \in SaveOutcomes(id) :
          /\ orders' = IF outcome = "ok"
                       THEN [orders EXCEPT ![id].razorpayPaymentId = proc[p].doc.razorpayPaymentId,
                                           ![id].paymentStatus = "Success"]
                       ELSE orders
          /\ paidWrites' = IF outcome = "ok" THEN Bump(paidWrites, o) ELSE paidWrites
          /\ IF outcome = "throws"
             THEN /\ proc' = [proc EXCEPT ![p] = Respond(p, 500)]
                  /\ UNCHANGED accepted
             ELSE IF proc[p].doc.emailSent
             THEN /\ proc' = [proc EXCEPT ![p] = [Respond(p, 200) EXCEPT !.wrote = (outcome = "ok")]]
                  /\ accepted' = accepted \cup {Report(proc[p].req)}
             ELSE /\ proc' = [proc EXCEPT ![p].pc = "mail", ![p].wrote = (outcome = "ok")]
                  /\ UNCHANGED accepted
  /\ UNCHANGED <<db, conns, clients, rev, nextDoc, rzp, pp, now, mails>>

VerifyMailPropagates(p) ==
  /\ proc[p].kind = "verify" /\ proc[p].pc = "mail"
  /\ \E delivered \in BOOLEAN :
       IF delivered
       THEN /\ mails' = Bump(mails, proc[p].doc.orderId)
            /\ proc' = [proc EXCEPT ![p].pc = "savemail", ![p].mailed = TRUE,
                                     ![p].doc.emailSent = TRUE]
       ELSE /\ proc' = [proc EXCEPT ![p] = Respond(p, 500)]
            /\ UNCHANGED mails
  /\ UNCHANGED <<db, conns, clients, rev, orders, nextDoc, rzp, pp, now, paidWrites, accepted>>

VerifyMail(p) ==
  /\ proc[p].kind = "verify" /\ proc[p].pc = "mail"
  /\ \E delivered \in BOOLEAN :
       IF delivered
       THEN /\ mails' = Bump(mails, proc[p].doc.orderId)
            /\ proc' = [proc EXCEPT ![p].pc = "savemail", ![p].mailed = TRUE,
                                     ![p].doc.emailSent = TRUE]
            /\ UNCHANGED accepted
       ELSE /\ proc' = [proc EXCEPT ![p] = Respond(p, 200)]
            /\ accepted' = accepted \cup {Report(proc[p].req)}
            /\ UNCHANGED mails
  /\ UNCHANGED <<db, conns, clients, rev, orders, nextDoc, rzp, pp, now, paidWrites>>

VerifySaveMail(p) ==
  /\ proc[p].kind = "verify" /\ proc[p].pc = "savemail"
  /\ \E outcome \in SaveOutcomes(proc[p].id) :
       orders' = IF outcome = "ok"
                 THEN [orders EXCEPT ![proc[p].id].emailSent = TRUE]
                 ELSE orders
  /\ proc' = [proc EXCEPT ![p] = Respond(p, 200)]
  /\ accepted' = accepted \cup {Report(proc[p].req)}
  /\ UNCHANGED <<db, conns, clients, rev, nextDoc, rzp, pp, now, mails, paidWrites>>

(***************************************************************************)
(* Razorpay revision: POST /api/orders/force-update/:orderId               *)
(***************************************************************************)
ForceReadUnchecked(p, orderId) ==
  /\ rev = "razorpay"
  /\ Idle(p)
  /\ LET started == [proc[p] EXCEPT !.kind = "force", !.req.orderId = orderId]
         ById(o) == o.orderId = orderId
         id == FindOne({d \in Stored : ById(orders[d])})
     IN IF orderId = ""
        THEN proc' = [proc EXCEPT ![p] = [started EXCEPT !.pc = "done", !.resp = 400]]
        ELSE IF id = 0
        THEN proc' = [proc EXCEPT ![p] = [started EXCEPT !.pc = "done", !.resp = 404]]
        ELSE proc' = [proc EXCEPT ![p] =
               [started EXCEPT !.pc = IF orders[id].emailSent THEN "save" ELSE "mail",
                               !.id = id,
                               !.doc = [orders[id] EXCEPT !.paymentStatus = "Success"]]]
  /\ UNCHANGED <<db, conns, clients, rev, orders, nextDoc, rzp, pp, now, mails, paidWrites, accepted>>

ForceRead(p, orderId) ==
  /\ rev = "razorpay"
  /\ Idle(p)
  /\ LET started == [proc[p] EXCEPT !.kind = "force", !.req.orderId = orderId]
         ById(o) == o.orderId = orderId
         id == FindOne({d \in Stored : ById(orders[d])})
     IN IF orderId = ""
        THEN proc' = [proc EXCEPT ![p] = [started EXCEPT !.pc = "done", !.resp = 400]]
        ELSE IF id = 0
        THEN proc' = [proc EXCEPT ![p] = [started EXCEPT !.pc = "done", !.resp = 404]]
        ELSE IF orders[id].paymentStatus = "Success"
        THEN proc' = [proc EXCEPT ![p] = [started EXCEPT !.pc = "done", !.resp = 400,
                                                          !.id = id, !.doc = orders[id]]]
        ELSE proc' = [proc EXCEPT ![p] =
               [started EXCEPT !.pc = IF orders[id].emailSent THEN "save" ELSE "mail",
                               !.id = id,
                               !.doc = [orders[id] EXCEPT !.paymentStatus = "Success"]]]
  /\ UNCHANGED <<db, conns, clients, rev, orders, nextDoc, rzp, pp, now, mails, paidWrites, accepted>>

ForceMail(p) ==
  /\ proc[p].kind = "force" /\ proc[p].pc = "mail"
  /\ \E delivered \in BOOLEAN :
       IF delivered
       THEN /\ mails' = Bump(mails, proc[p].doc.orderId)
            /\ proc' = [proc EXCEPT ![p].pc = "save", ![p].mailed = TRUE,
                                     ![p].doc.emailSent = TRUE]
       ELSE /\ proc' = [proc EXCEPT ![p].pc = "save"]
            /\ UNCHANGED mails
  /\ UNCHANGED <<db, conns, clients, rev, orders, nextDoc, rzp, pp, now, paidWrites, accepted>>

ForceSaveRecomputes(p) ==
  /\ proc[p].kind = "force" /\ proc[p].pc = "save"
  /\ LET id == proc[p].id
     IN \E outcome \in SaveOutcomes(id) :
          /\ orders' = IF outcome = "ok"
                       THEN [orders EXCEPT ![id].paymentStatus = "Success",
                                           ![id].total =
                                              validateOrderTotals(proc[p].doc).calculatedTotal,
                                           ![id].emailSent =
                                              IF proc[p].mailed THEN TRUE ELSE @]
                       ELSE orders
          /\ paidWrites' = IF outcome = "ok"
                           THEN Bump(paidWrites, proc[p].doc.orderId) ELSE paidWrites
          /\ proc' = [proc EXCEPT ![p] =
                        [Respond(p, IF outcome = "throws" THEN 500 ELSE 200)
                           EXCEPT !.wrote = (outcome = "ok")]]
  /\ UNCHANGED <<db, conns, clients, rev, nextDoc, rzp, pp, now, mails, accepted>>

ForceSave(p) ==
  /\ proc[p].kind = "force" /\ proc[p].pc = "save"
  /\ LET id == proc[p].id
     IN \E outcome \in SaveOutcomes(id) :
          /\ orders' = IF outcome = "ok"
                       THEN [orders EXCEPT ![id].paymentStatus = "Success",
                                           ![id].emailSent =
                                              IF proc[p].mailed THEN TRUE ELSE @]
                       ELSE orders
          /\ paidWrites' = IF outcome = "ok"
                           THEN Bump(paidWrites, proc[p].doc.orderId) ELSE paidWrites
          /\ proc' = [proc EXCEPT ![p] =
                        [Respond(p, IF outcome = "throws" THEN 500 ELSE 200)
                           EXCEPT !.wrote = (outcome = "ok")]]
  /\ UNCHANGED <<db, conns, clients, rev, nextDoc, rzp, pp, now, mails, accepted>>

(***************************************************************************)
(* PhonePe revision (src/routes/orders.js 30-463).  Each handler is one    *)
(* action: the request is taken, answered, and the slot is freed by Finish.*)
(***************************************************************************)
SaltKey == "PHONEPE_SALT_KEY"

PhonePeOrder(body, orderId) ==
  [orderId |-> orderId,
   items |-> body.items,
   paymentMethod |-> body.paymentMethod,
   total |-> body.total,
   paymentStatus |-> "Pending",
   phonepeTransactionId |-> 0]

PhonePeCreate(p, body, orderId) ==
  /\ rev = "phonepe"
  /\ Idle(p)
  /\ LET started == [proc[p] EXCEPT !.kind = "create", !.req.body = body,
                                    !.req.orderId = orderId]
         Reject == /\ proc' = [proc EXCEPT ![p] =
                                 [started EXCEPT !.pc = "done", !.resp = 400]]
                   /\ UNCHANGED <<orders, nextDoc>>
     IN IF ~body.fieldsOk \/ body.total = 0 \/ body.paymentMethod = "" THEN Reject
        ELSE IF body.paymentMethod \notin {"PhonePe", "COD"} THEN Reject
        ELSE IF DuplicateKey(orderId) THEN Reject
        ELSE /\ nextDoc <= MaxDocs
             /\ orders' = [orders EXCEPT ![nextDoc] = PhonePeOrder(body, orderId)]
             /\ nextDoc' = nextDoc + 1
             /\ proc' = [proc EXCEPT ![p] =
                           [started EXCEPT !.pc = "done", !.resp = 201, !.wrote = TRUE,
                                           !.id = nextDoc,
                                           !.doc = PhonePeOrder(body, orderId)]]
  /\ UNCHANGED <<db, conns, clients, rev, rzp, pp, now, mails, paidWrites, accepted>>

\* The amount charged is the one the request names, not the stored total.
PhonePeInitiate(p, orderId, amount) ==
  /\ rev = "phonepe"
  /\ Idle(p)
  /\ LET started == [proc[p] EXCEPT !.kind = "initiate", !.req.orderId = orderId,
                                    !.req.amount = amount]
         ById(o) == o.orderId = orderId
         id == FindOne({d \in Stored : ById(orders[d])})
         Reject(status) == /\ proc' = [proc EXCEPT ![p] =
                                         [started EXCEPT !.pc = "done", !.resp = status]]
                           /\ UNCHANGED <<orders, pp>>
     IN IF orderId = "" \/ amount = 0 THEN Reject(400)
        ELSE IF id = 0 THEN Reject(404)
        ELSE IF orders[id].paymentStatus # "Pending" THEN Reject(400)
        ELSE \/ Reject(502)
             \/ Reject(500)
             \/ /\ Len(pp) < MaxGatewayOrders
                /\ pp' = Append(pp, [amount |-> amount, state |-> "PENDING"])
                /\ \E outcome \in SaveOutcomes(id) :
                     /\ orders' = IF outcome = "ok"
                                  THEN [orders EXCEPT ![id].phonepeTransactionId = Len(pp) + 1]
                                  ELSE orders
                     /\ proc' = [proc EXCEPT ![p] =
                          [started EXCEPT !.pc = "done", !.wrote = (outcome = "ok"),
                                          !.resp = IF outcome = "ok" THEN 200 ELSE 500,
                                          !.id = id,
                                          !.doc = [orders[id] EXCEPT
                                                     !.phonepeTransactionId = Len(pp) + 1]]]
  /\ UNCHANGED <<db, conns, clients, rev, nextDoc, rzp, now, mails, paidWrites, accepted>>

\* The gateway settles a transaction the customer was sent to.
PhonePeSettle(t, outcome) ==
  /\ rev = "phonepe"
  /\ t \in 1..Len(pp)
  /\ pp[t].state = "PENDING"
  /\ pp' = [pp EXCEPT ![t].state = outcome]
  /\ UNCHANGED <<db, conns, clients, rev, orders, nextDoc, rzp, proc, now, mails, paidWrites, accepted>>

\* The callback body the gateway posts for a settled transaction.
CallbackOf(t) ==
  IF pp[t].state = "SUCCESS"
  THEN [txn |-> t, state |-> "COMPLETED", code |-> "PAYMENT_SUCCESS"]
  ELSE [txn |-> t, state |-> "FAILED", code |-> "PAYMENT_ERROR"]

Callbacks ==
  {[txn |-> t, state |-> "COMPLETED", code |-> "PAYMENT_SUCCESS"] : t \in 1..MaxGatewayOrders}
    \cup {[txn |-> t, state |-> "FAILED", code |-> "PAYMENT_ERROR"] : t \in 1..MaxGatewayOrders}

\* The X-VERIFY headers a sender can present: those of callbacks the gateway
\* issued, and ones made without the salt key.
PresentableChecksums(response) ==
  {Checksum(SaltKey, CallbackOf(t)) : t \in {x \in 1..Len(pp) : pp[x].state # "PENDING"}}
    \cup {Checksum("guess", response)}

ChecksumOkUnchecked(req) == TRUE

ChecksumOk(req) == req.xVerify = Checksum(SaltKey, req.response)

PhonePeCallback(p, response, xVerify) ==
  /\ rev = "phonepe"
  /\ Idle(p)
  /\ LET req == [NoReq EXCEPT !.response = response, !.xVerify = xVerify]
         started == [proc[p] EXCEPT !.kind = "callback", !.req = req]
         ByTxn(o) == o.phonepeTransactionId = response.txn
         id == FindOne({d \in Stored : ByTxn(orders[d])})
         status == IF response.state = "COMPLETED" /\ response.code = "PAYMENT_SUCCESS"
                   THEN "Paid" ELSE "Failed"
         Reject(code) == /\ proc' = [proc EXCEPT ![p] =
                                       [started EXCEPT !.pc = "done", !.resp = code]]
                         /\ UNCHANGED orders
     IN IF response = NoResponse THEN Reject(400)
        ELSE IF ~ChecksumOk(req) THEN Reject(400)
        ELSE IF id = 0 THEN Reject(404)
        ELSE /\ orders' = [orders EXCEPT ![id].paymentStatus = status]
             /\ proc' = [proc EXCEPT ![p] =
                           [started EXCEPT !.pc = "done", !.resp = 200, !.wrote = TRUE,
                                           !.id = id, !.doc = orders[id]]]
  /\ UNCHANGED <<db, conns, clients, rev, nextDoc, rzp, pp, now, mails, paidWrites, accepted>>

PhonePeVerify(p, orderId, transactionId) ==
  /\ rev = "phonepe"
  /\ Idle(p)
  /\ LET started == [proc[p] EXCEPT !.kind = "verify", !.req.orderId = orderId,
                                    !.req.ref = transactionId]
         ByBoth(o) == o.orderId = orderId /\ o.phonepeTransactionId = transactionId
         id == FindOne({d \in Stored : ByBoth(orders[d])})
         Reject(code) == /\ proc' = [proc EXCEPT ![p] =
                                       [started EXCEPT !.pc = "done", !.resp = code]]
                         /\ UNCHANGED orders
     IN IF orderId = "" \/ transactionId = 0 THEN Reject(400)
        ELSE IF id = 0 THEN Reject(404)
        ELSE \/ Reject(502)
             \/ /\ orders' = [orders EXCEPT ![id].paymentStatus =
                                   IF pp[transactionId].state = "SUCCESS"
                                   THEN "Paid" ELSE "Failed"]
                /\ proc' = [proc EXCEPT ![p] =
                              [started EXCEPT !.pc = "done", !.resp = 200, !.wrote = TRUE,
                                              !.id = id, !.doc = orders[id]]]
  /\ UNCHANGED <<db, conns, clients, rev, nextDoc, rzp, pp, now, mails, paidWrites, accepted>>

(***************************************************************************)
(* Deferred-save Razorpay revision (src/unnamed/part_005) with the schema  *)
(* hooks of src/models/order.js: a Razorpay order is stored only by the    *)
(* verification request, from the order data the client sends with it.     *)
(***************************************************************************)
DeferredOrder(body, orderId, ref, pid) ==
  [orderId |-> orderId,
   items |-> body.items,
   shipCost |-> body.shipCost,
   couponCode |-> body.couponCode,
   couponDiscount |-> body.couponDiscount,
   paymentMethod |-> body.paymentMethod,
   total |-> body.total,
   paymentStatus |-> "Paid",
   paymentId |-> pid,
   razorpayOrderId |-> ref]

\* pre('validate') of a new document: the outcomes of the total comparison.
TotalHookFails(order) ==
  ExceedsTolerance(order.total,
                   Subtotal(order.items) + order.shipCost - order.couponDiscount)

\* pre('validate'): a paid Razorpay order needs a paymentId.
PaymentIdHookFails(order) ==
  order.paymentMethod = "Razorpay" /\ order.paymentStatus = "Paid" /\ order.paymentId = 0

DeferredCreate(p, body, orderId) ==
  /\ rev = "deferred"
  /\ Idle(p)
  /\ LET started == [proc[p] EXCEPT !.kind = "create", !.req.body = body,
                                    !.req.orderId = orderId]
         order == DeferredOrder(body, orderId, 0, 0)
         Answer(status) == /\ proc' = [proc EXCEPT ![p] =
                                         [started EXCEPT !.pc = "done", !.resp = status]]
                           /\ UNCHANGED <<orders, nextDoc>>
     IN IF ~body.fieldsOk \/ body.total = 0 \/ body.paymentMethod = "" THEN Answer(400)
        ELSE IF body.paymentMethod \notin {"COD", "Razorpay"} THEN Answer(400)
        ELSE IF body.paymentMethod = "Razorpay" THEN Answer(200)
        ELSE \E fails \in TotalHookFails(order) :
               IF fails THEN Answer(500)
               ELSE IF DuplicateKey(orderId) THEN Answer(400)
               ELSE /\ nextDoc <= MaxDocs
                    /\ orders' = [orders EXCEPT ![nextDoc] = order]
                    /\ nextDoc' = nextDoc + 1
                    /\ proc' = [proc EXCEPT ![p] =
                                  [started EXCEPT !.pc = "done", !.resp = 201,
                                                  !.wrote = TRUE, !.id = nextDoc,
                                                  !.doc = order]]
  /\ UNCHANGED <<db, conns, clients, rev, rzp, pp, now, mails, paidWrites, accepted>>

DeferredInitiate(p, orderId, amount) ==
  /\ rev = "deferred"
  /\ Idle(p)
  /\ LET started == [proc[p] EXCEPT !.kind = "initiate", !.req.orderId = orderId,
                                    !.req.amount = amount]
     IN \/ /\ orderId # "" /\ amount # 0
           /\ Len(rzp) < MaxGatewayOrders
           /\ rzp' = Append(rzp, [amount |-> amount, receipt |-> orderId, paid |-> FALSE])
           /\ proc' = [proc EXCEPT ![p] = [started EXCEPT !.pc = "done", !.resp = 200]]
        \/ /\ proc' = [proc EXCEPT ![p] =
                          [started EXCEPT !.pc = "done",
                                          !.resp = IF orderId = "" \/ amount = 0
                                                   THEN 400 ELSE 500]]
           /\ UNCHANGED rzp
  /\ UNCHANGED <<db, conns, clients, rev, orders, nextDoc, pp, now, mails, paidWrites, accepted>>

DeferredPay(r) ==
  /\ rev = "deferred"
  /\ r \in 1..Len(rzp)
  /\ ~rzp[r].paid
  /\ rzp' = [rzp EXCEPT ![r].paid = TRUE]
  /\ UNCHANGED <<db, conns, clients, rev, orders, nextDoc, pp, proc, now, mails, paidWrites, accepted>>

DeferredVerify(p, orderId, ref, pid, sig, body) ==
  /\ rev = "deferred"
  /\ Idle(p)
  /\ LET req == [NoReq EXCEPT !.orderId = orderId, !.ref = ref, !.pid = pid,
                              !.sig = sig, !.body = body]
         started == [proc[p] EXCEPT !.kind = "verify", !.req = req]
         order == DeferredOrder(body, orderId, ref, pid)
         Answer(status) == /\ proc' = [proc EXCEPT ![p] =
                                         [started EXCEPT !.pc = "done", !.resp = status]]
                           /\ UNCHANGED <<orders, nextDoc>>
     IN IF orderId = "" \/ ref = 0 \/ pid = 0 \/ body = NoBody THEN Answer(400)
        ELSE IF ~SignatureOk(req) THEN Answer(400)
        ELSE \E fails \in TotalHookFails(order) :
               IF fails \/ PaymentIdHookFails(order) \/ DuplicateKey(orderId)
               THEN Answer(500)
               ELSE /\ nextDoc <= MaxDocs
                    /\ orders' = [orders EXCEPT ![nextDoc] = order]
                    /\ nextDoc' = nextDoc + 1
                    /\ proc' = [proc EXCEPT ![p] =
                                  [started EXCEPT !.pc = "done", !.resp = 200,
                                                  !.wrote = TRUE, !.id = nextDoc,
                                                  !.doc = order]]
  /\ UNCHANGED <<db, conns, clients, rev, rzp, pp, now, mails, paidWrites, accepted>>

(***************************************************************************)
(* Time and the daily cleanup job (src/unnamed/part_000 405-416).          *)
(***************************************************************************)
Tick ==
  /\ now + TickMinutes <= MaxNow
  /\ now' = now + TickMinutes
  /\ UNCHANGED <<db, conns, clients, rev, orders, nextDoc, rzp, pp, proc, mails, paidWrites, accepted>>

CleanupMatchesAnyStatus(order) == order.createdAt < now - RetentionMinutes

CleanupMatches(order) ==
  /\ order.paymentStatus \in {"Pending", "Failed"}
  /\ order.createdAt < now - RetentionMinutes

Cleanup ==
  /\ rev = "razorpay"
  /\ orders' = [d \in DocIds |->
                  IF orders[d] # NoDoc /\ CleanupMatches(orders[d])
                  THEN NoDoc ELSE orders[d]]
  /\ UNCHANGED <<db, conns, clients, rev, nextDoc, rzp, pp, proc, now, mails, paidWrites, accepted>>

(***************************************************************************)
(* The requests clients send.                                              *)
(***************************************************************************)
Item(price, quantity) == [price |-> price, quantity |-> quantity]

Body(items, shipCost, couponCode, paymentMethod, total) ==
  [fieldsOk |-> TRUE, items |-> items, shipCost |-> shipCost, couponCode |-> couponCode,
   couponDiscount |-> 0, paymentMethod |-> paymentMethod, total |-> total]

\* Orders of 850 rupees (free shipping), of 50 rupees with the coupon, and of
\* 850 rupees sent with 80 rupees of shipping.
ShopBodies ==
  {Body(<<Item(85000, 1)>>, 0, "", "COD", 85000),
   Body(<<Item(85000, 1)>>, 0, "", "Razorpay", 85000),
   Body(<<Item(5000, 1)>>, 0, "FREESHIPPING", "Razorpay", 100),
   Body(<<Item(85000, 1)>>, 0, "", "Razorpay", 100),
   Body(<<Item(85000, 1)>>, 8000, "", "Razorpay", 93000),
   NoBody}

PhonePeBodies ==
  {Body(<<Item(85000, 1)>>, 0, "", "PhonePe", 85000),
   Body(<<Item(85000, 1)>>, 0, "", "COD", 85000),
   Body(<<Item(85000, 1)>>, 0, "", "Razorpay", 85000),
   NoBody}

DeferredBodies ==
  {Body(<<Item(85000, 1)>>, 0, "", "COD", 85000),
   Body(<<Item(85000, 1)>>, 0, "", "COD", 100),
   Body(<<Item(85000, 1)>>, 0, "", "Razorpay", 85000),
   NoBody}

Amounts == {100, 85000}

Refs == 1..MaxGatewayOrders

(***************************************************************************)
(* The server process: connectDB (src/server.js 105-128) and the SSE       *)
(* endpoint /api/order-updates (src/unnamed/part_001 160-190).             *)
(***************************************************************************)
ConnIds == 1..MaxClients

\* connectDB() with its default arguments, about to make its first attempt.
DbStart(uri) ==
  [phase |-> "attempt", uri |-> uri, retries |-> InitialRetries, delay |-> InitialDelay,
   attempts |-> 0, waits |-> << >>]

DbConnected == [DbStart(TRUE) EXCEPT !.phase = "connected", !.attempts = 1]

ConnectAttemptForever ==
  /\ db.phase = "attempt"
  /\ IF ~db.uri
     THEN db' = [db EXCEPT !.phase = "exited"]
     ELSE \E connected \in BOOLEAN :
            IF connected
            THEN db' = [db EXCEPT !.phase = "connected", !.attempts = @ + 1]
            ELSE db' = [db EXCEPT !.phase = "wait", !.attempts = @ + 1,
                                  !.waits = Append(@, db.delay)]
  /\ UNCHANGED <<conns, clients, rev, orders, nextDoc, rzp, pp, proc, now, mails,
                 paidWrites, accepted>>

\* One call of connectDB(retries, delay): mongoose.connect resolves, or it
\* rejects and the next call is scheduled after delay, or the process exits.
ConnectAttempt ==
  /\ db.phase = "attempt"
  /\ IF ~db.uri
     THEN db' = [db EXCEPT !.phase = "exited"]
     ELSE \E connected \in BOOLEAN :
            IF connected
            THEN db' = [db EXCEPT !.phase = "connected", !.attempts = @ + 1]
            ELSE IF db.retries > 0
            THEN db' = [db EXCEPT !.phase = "wait", !.attempts = @ + 1,
                                  !.waits = Append(@, db.delay)]
            ELSE db' = [db EXCEPT !.phase = "exited", !.attempts = @ + 1]
  /\ UNCHANGED <<conns, clients, rev, orders, nextDoc, rzp, pp, proc, now, mails,
                 paidWrites, accepted>>

\* setTimeout(() => connectDB(retries - 1, delay * 2), delay) fires.
TimerFires ==
  /\ db.phase = "wait"
  /\ db' = [db EXCEPT !.phase = "attempt", !.retries = @ - 1, !.delay = @ * 2]
  /\ UNCHANGED <<conns, clients, rev, orders, nextDoc, rzp, pp, proc, now, mails,
                 paidWrites, accepted>>

JwtSecret == "JWT_SECRET"

\* req.query.token is absent.
NoToken == [key |-> "", expired |-> FALSE]

\* The tokens clients present: none, one the server signed, one the server
\* signed that has expired, one signed with another key.
Tokens ==
  {NoToken,
   [key |-> JwtSecret, expired |-> FALSE],
   [key |-> JwtSecret, expired |-> TRUE],
   [key |-> "guess", expired |-> FALSE]}

jwtVerifyIgnoringExpiry(token) == token.key = JwtSecret

\* jwt.verify(token, process.env.JWT_SECRET) returns instead of throwing.
jwtVerify(token) == token.key = JwtSecret /\ ~token.expired

NoConn == [socket |-> "none", token |-> NoToken, status |-> 0]

\* GET /api/order-updates?token=...: 401 without a token or with one that
\* does not verify; otherwise the client is registered and the stream stays
\* open.
OrderUpdates(c, token) ==
  /\ conns[c].socket = "none"
  /\ IF token = NoToken \/ ~jwtVerify(token)
     THEN /\ conns' = [conns EXCEPT ![c] = [socket |-> "closed", token |-> token,
                                            status |-> 401]]
          /\ UNCHANGED clients
     ELSE /\ conns' = [conns EXCEPT ![c] = [socket |-> "open", token |-> token,
                                            status |-> 200]]
          /\ clients' = clients \cup {c}
  /\ UNCHANGED <<db, rev, orders, nextDoc, rzp, pp, proc, now, mails, paidWrites, accepted>>

\* req.on('close'): the connection of a registered client closes.
OnClose(c) ==
  /\ conns[c].socket = "open"
  /\ conns' = [conns EXCEPT ![c].socket = "closed"]
  /\ clients' = clients \ {c}
  /\ UNCHANGED <<db, rev, orders, nextDoc, rzp, pp, proc, now, mails, paidWrites, accepted>>

\* The server is up, connected to the store, with no SSE connection made.
ServerUp ==
  /\ db = DbConnected
  /\ conns = [c \in ConnIds |-> NoConn]
  /\ clients = {}

InitStore ==
  /\ ServerUp
  /\ orders = [d \in DocIds |-> NoDoc]
  /\ nextDoc = 1
  /\ rzp = << >>
  /\ pp = << >>
  /\ proc = [p \in Procs |-> IdleProc]
  /\ now = 0
  /\ mails = [o \in OrderIds |-> 0]
  /\ paidWrites = [o \in OrderIds |-> 0]
  /\ accepted = {}

RazorpayCreate(p, ids) ==
  \E body \in ShopBodies, orderId \in ids : CreateOrder(p, body, orderId)

RazorpayStep(p, ids) ==
  \/ CreateMail(p)
  \/ CreateSaveMail(p)
  \/ \E orderId \in ids \cup {""} : InitiateRead(p, orderId)
  \/ InitiateGateway(p)
  \/ InitiateSave(p)
  \/ \E orderId \in ids, ref \in Refs, pid \in Refs :
       \E sig \in Presentable(ref, pid) : VerifyRead(p, orderId, ref, pid, sig)
  \/ VerifyRead(p, "", 0, 0, Hmac("", 0, 0))
  \/ VerifySave(p)
  \/ VerifyMail(p)
  \/ VerifySaveMail(p)
  \/ \E orderId \in ids \cup {""} : ForceRead(p, orderId)
  \/ ForceMail(p)
  \/ ForceSave(p)

PhonePeStep(p, ids) ==
  \/ \E body \in PhonePeBodies, orderId \in ids : PhonePeCreate(p, body, orderId)
  \/ \E orderId \in ids, amount \in Amounts : PhonePeInitiate(p, orderId, amount)
  \/ PhonePeInitiate(p, "", 0)
  \/ \E response \in Callbacks :
       \E xVerify \in PresentableChecksums(response) : PhonePeCallback(p, response, xVerify)
  \/ \E orderId \in ids, t \in Refs : PhonePeVerify(p, orderId, t)
  \/ PhonePeVerify(p, "", 0)
  \/ PhonePeCallback(p, NoResponse, Checksum("guess", NoResponse))

DeferredStep(p, ids) ==
  \/ \E body \in DeferredBodies, orderId \in ids : DeferredCreate(p, body, orderId)
  \/ \E orderId \in ids, amount \in Amounts : DeferredInitiate(p, orderId, amount)
  \/ DeferredInitiate(p, "", 0)
  \/ \E orderId \in ids, ref \in Refs, pid \in Refs, body \in DeferredBodies :
       \E sig \in Presentable(ref, pid) : DeferredVerify(p, orderId, ref, pid, sig, body)

\* A handler sends its response in the same turn of the event loop as the
\* step that decided it: nothing runs between that step and Finish.
Responding == \E p \in Procs : proc[p].pc = "done"

Init == rev \in {"razorpay", "phonepe", "deferred"} /\ InitStore

Next ==
  \/ ~Responding /\ \E p \in Procs : RazorpayCreate(p, OneOrder) \/ RazorpayStep(p, OneOrder)
  \/ ~Responding /\ \E r \in Refs : GatewayPay(r)
  \/ ~Responding /\ \E p \in Procs : PhonePeStep(p, OneOrder)
  \/ ~Responding /\ \E t \in Refs, outcome \in {"SUCCESS", "FAILED"} : PhonePeSettle(t, outcome)
  \/ ~Responding /\ \E p \in Procs : DeferredStep(p, OneOrder)
  \/ ~Responding /\ \E r \in Refs : DeferredPay(r)
  \/ \E p \in Procs : Finish(p)

Spec == Init /\ [][Next]_vars

(***************************************************************************)
(* Requests handled one at a time, for two orders.                         *)
(***************************************************************************)
Quiet(p) == \A q \in Procs \ {p} : proc[q].pc = "idle"

NextSerial ==
  \/ /\ ~Responding
     /\ \E p \in Procs : Quiet(p) /\ (RazorpayCreate(p, OrderIds) \/ RazorpayStep(p, OrderIds))
  \/ ~Responding /\ \E r \in Refs : GatewayPay(r)
  \/ ~Responding /\ \E p \in Procs : Quiet(p) /\ PhonePeStep(p, OrderIds)
  \/ ~Responding /\ \E t \in Refs, outcome \in {"SUCCESS", "FAILED"} : PhonePeSettle(t, outcome)
  \/ ~Responding /\ \E p \in Procs : Quiet(p) /\ DeferredStep(p, OrderIds)
  \/ ~Responding /\ \E r \in Refs : DeferredPay(r)
  \/ \E p \in Procs : Finish(p)

SpecSerial == Init /\ [][NextSerial]_vars

(***************************************************************************)
(* The Razorpay revision with the clock and the cleanup job, requests      *)
(* handled one at a time.  Orders are created early enough for the clock   *)
(* to carry them past the retention window.                                *)
(***************************************************************************)
InitExpiry == rev = "razorpay" /\ InitStore

NextExpiry ==
  \/ ~Responding /\ Tick
  \/ ~Responding /\ Cleanup
  \/ /\ ~Responding
     /\ now + RetentionMinutes + TickMinutes <= MaxNow
     /\ \E p \in Procs : Quiet(p) /\ RazorpayCreate(p, OneOrder)
  \/ ~Responding /\ \E p \in Procs : Quiet(p) /\ RazorpayStep(p, OneOrder)
  \/ ~Responding /\ \E r \in Refs : GatewayPay(r)
  \/ \E p \in Procs : Finish(p)

SpecExpiry ==
  /\ InitExpiry
  /\ [][NextExpiry]_vars
  /\ WF_vars(Tick)
  /\ WF_vars(Cleanup)
  /\ WF_vars(\E p \in Procs : Finish(p))

(***************************************************************************)
(* The Razorpay revision deployed on a store that holds an order written   *)
(* by the earlier Razorpay revision, whose creation stores the request's   *)
(* shipping cost and total as sent.  Requests are handled one at a time.   *)
(***************************************************************************)
\* The earlier revision has no createdAt; new Date(undefined) is an Invalid
\* Date, for which isOrderValid is false.  The model keeps such a document as
\* one created before the validity window.
NotStamped == 0 - (ORDER_TIMEOUT_MINUTES + 1)

LegacyOrder(body, orderId, createdAt) ==
  [orderId |-> orderId,
   items |-> body.items,
   shipCost |-> body.shipCost,
   couponCode |-> body.couponCode,
   couponDiscount |-> body.couponDiscount,
   paymentMethod |-> body.paymentMethod,
   total |-> body.total,
   paymentStatus |-> "Pending",
   emailSent |-> FALSE,
   createdAt |-> createdAt,
   razorpayOrderId |-> 0,
   razorpayPaymentId |-> 0]

\* 850 rupees of items with 80 rupees of shipping and total 930; 850 rupees of
\* items stored with total 1; and an order the present rules accept.
LegacyBodies ==
  {Body(<<Item(85000, 1)>>, 8000, "", "Razorpay", 93000),
   Body(<<Item(85000, 1)>>, 0, "", "Razorpay", 100),
   Body(<<Item(85000, 1)>>, 0, "", "Razorpay", 85000)}

InitUpgrade ==
  /\ rev = "razorpay"
  /\ ServerUp
  /\ \E body \in LegacyBodies, createdAt \in {0, NotStamped} :
       orders = [d \in DocIds |->
                   IF d = 1 THEN LegacyOrder(body, "A", createdAt) ELSE NoDoc]
  /\ nextDoc = 2
  /\ rzp = << >>
  /\ pp = << >>
  /\ proc = [p \in Procs |-> IdleProc]
  /\ now = 0
  /\ mails = [o \in OrderIds |-> 0]
  /\ paidWrites = [o \in OrderIds |-> 0]
  /\ accepted = {}

NextUpgrade ==
  \/ /\ ~Responding
     /\ \E p \in Procs : Quiet(p) /\ (RazorpayCreate(p, OrderIds) \/ RazorpayStep(p, OrderIds))
  \/ ~Responding /\ \E r \in Refs : GatewayPay(r)
  \/ \E p \in Procs : Finish(p)

SpecUpgrade == InitUpgrade /\ [][NextUpgrade]_vars

(***************************************************************************)
(* Razorpay revision: DELETE /api/orders/:orderId, and the revision with   *)
(* this request among two concurrent ones.                                 *)
(***************************************************************************)
DeleteRead(p, orderId) ==
  /\ rev = "razorpay"
  /\ Idle(p)
  /\ LET started == [proc[p] EXCEPT !.kind = "delete", !.req.orderId = orderId]
         Pending(o) == /\ o.orderId = orderId
                       /\ o.paymentStatus = "Pending"
                       /\ o.paymentMethod = "Razorpay"
         id == FindOne({d \in Stored : Pending(orders[d])})
     IN IF orderId = ""
        THEN proc' = [proc EXCEPT ![p] = [started EXCEPT !.pc = "done", !.resp = 400]]
        ELSE IF id = 0
        THEN proc' = [proc EXCEPT ![p] = [started EXCEPT !.pc = "done", !.resp = 404]]
        ELSE proc' = [proc EXCEPT ![p] =
               [started EXCEPT !.pc = "remove", !.id = id, !.doc = orders[id]]]
  /\ UNCHANGED <<db, conns, clients, rev, orders, nextDoc, rzp, pp, now, mails, paidWrites, accepted>>

\* Order.deleteOne({ orderId }) removes the first document that holds the
\* orderId, or the call rejects and nothing is removed.
DeleteOneFilter(order, orderId) == order.orderId = orderId

DeleteRemove(p) ==
  /\ proc[p].kind = "delete" /\ proc[p].pc = "remove"
  /\ LET id == FindOne({d \in Stored : DeleteOneFilter(orders[d], proc[p].req.orderId)})
     IN \/ /\ orders' = IF id = 0 THEN orders ELSE [orders EXCEPT ![id] = NoDoc]
           /\ proc' = [proc EXCEPT ![p] =
                         [Respond(p, 200) EXCEPT !.wrote = (id # 0)]]
        \/ /\ proc' = [proc EXCEPT ![p] = Respond(p, 500)]
           /\ UNCHANGED orders
  /\ UNCHANGED <<db, conns, clients, rev, nextDoc, rzp, pp, now, mails, paidWrites, accepted>>

DeleteStep(p, ids) ==
  \/ \E orderId \in ids \cup {""} : DeleteRead(p, orderId)
  \/ DeleteRemove(p)

InitCancel == rev = "razorpay" /\ InitStore

NextCancel ==
  \/ ~Responding /\ \E p \in Procs : RazorpayCreate(p, OneOrder) \/ RazorpayStep(p, OneOrder)
  \/ ~Responding /\ \E r \in Refs : GatewayPay(r)
  \/ ~Responding /\ \E p \in Procs : DeleteStep(p, OneOrder)
  \/ \E p \in Procs : Finish(p)

SpecCancel == InitCancel /\ [][NextCancel]_vars

(***************************************************************************)
(* Order creation of the Razorpay revision over a grid of request bodies:  *)
(* one item at a price on either side of each shipping tier, the shipping  *)
(* costs of the three tiers, the coupon codes clients send, and totals     *)
(* around the ones the tiers give.                                         *)
(***************************************************************************)
PricingPrices == {5000, 50000, 60000, 80000, 85000}

PricingCoupons == {"", "FREESHIPPING", "freeshipping", "SAVE10"}

PricingTotals(price) ==
  {100, 101, price, price + 1, price + 5000, price + 8000} \cup
  {t \in {price - 5000, price - 8000} : t > 0}

PricingBodies ==
  {Body(<<Item(price, 1)>>, shipCost, code, "Razorpay", total) :
     price \in PricingPrices, shipCost \in {0, 5000, 8000},
     code \in PricingCoupons,
     total \in UNION {PricingTotals(q) : q \in PricingPrices}}

InitPricing == rev = "razorpay" /\ InitStore

NextPricing ==
  \/ /\ ~Responding
     /\ \E p \in Procs, body \in PricingBodies, orderId \in OneOrder :
          Quiet(p) /\ CreateOrder(p, body, orderId)
  \/ \E p \in Procs : Finish(p)

SpecPricing == InitPricing /\ [][NextPricing]_vars

(***************************************************************************)
(* The server process starting: connectDB and the SSE connections.         *)
(***************************************************************************)
InitServer ==
  /\ rev = "razorpay"
  /\ db \in {DbStart(uri) : uri \in BOOLEAN}
  /\ conns = [c \in ConnIds |-> NoConn]
  /\ clients = {}
  /\ orders = [d \in DocIds |-> NoDoc]
  /\ nextDoc = 1
  /\ rzp = << >>
  /\ pp = << >>
  /\ proc = [p \in Procs |-> IdleProc]
  /\ now = 0
  /\ mails = [o \in OrderIds |-> 0]
  /\ paidWrites = [o \in OrderIds |-> 0]
  /\ accepted = {}

NextServer ==
  \/ ConnectAttempt
  \/ TimerFires
  \/ \E c \in ConnIds, token \in Tokens : OrderUpdates(c, token)
  \/ \E c \in ConnIds : OnClose(c)

SpecServer == InitServer /\ [][NextServer]_vars

(***************************************************************************)
(* Properties.                                                             *)
(***************************************************************************)
\* Slot p takes a request of the given kind in this step.
Takes(p, kind) == proc[p].pc = "idle" /\ proc'[p].kind = kind

\* The stored document that holds orderId, 0 when there is none.
DocOf(orderId) ==
  IF \E d \in Stored : orders[d].orderId = orderId
  THEN CHOOSE d \in Stored : orders[d].orderId = orderId
  ELSE 0

Rejected(p, statuses) ==
  /\ proc'[p].pc = "done"
  /\ proc'[p].resp \in statuses
  /\ orders' = orders
  /\ mails' = mails

\* C1: in the PhonePe revision a stored order whose paymentStatus is Paid or
\* Failed keeps that paymentStatus in every step: no callback or verify
\* request moves a Paid order to Failed or a Failed order to Paid.
C1_TerminalStatusIsFinal ==
  [][\A d \in DocIds :
       (rev = "phonepe" /\ orders[d] # NoDoc /\ orders[d].paymentStatus \in {"Paid", "Failed"})
         => (orders'[d] # NoDoc /\ orders'[d].paymentStatus = orders[d].paymentStatus)]_vars

\* C2: however verify and force-update requests for an order interleave, at
\* most one save writes the paid status to the order, and no two requests in
\* flight for the same order have both delivered its confirmation email.
C2_OneWinner ==
  /\ \A o \in OrderIds : paidWrites[o] <= 1
  /\ \A p, q \in Procs :
       (/\ p # q
        /\ proc[p].kind \in {"verify", "force"}
        /\ proc[q].kind \in {"verify", "force"}
        /\ proc[p].req.orderId = proc[q].req.orderId)
       => ~(proc[p].mailed /\ proc[q].mailed)

\* C3: a verify-razorpay-payment request that repeats a correctly signed report
\* already answered with 200 finds the order in the paid state, is answered
\* 400, changes no stored order and delivers no email.
C3_ReplayIsNoOp ==
  [][\A p \in Procs :
       (/\ rev = "razorpay"
        /\ Takes(p, "verify")
        /\ Report(proc'[p].req) \in accepted
        /\ proc'[p].req.sig = Hmac(KeySecret, proc'[p].req.ref, proc'[p].req.pid))
       => /\ DocOf(proc'[p].req.orderId) # 0
          /\ orders[DocOf(proc'[p].req.orderId)].paymentStatus = "Success"
          /\ Rejected(p, {400})]_vars

C3_Replayed ==
  \E p \in Procs :
    /\ rev = "razorpay"
    /\ proc[p].kind = "verify" /\ proc[p].pc = "done" /\ proc[p].resp = 400
    /\ Report(proc[p].req) \in accepted
    /\ proc[p].req.sig = Hmac(KeySecret, proc[p].req.ref, proc[p].req.pid)
    /\ mails[proc[p].req.orderId] = 1
    /\ orders[proc[p].id].razorpayPaymentId = proc[p].req.pid

\* C4: a verify-razorpay-payment request whose signature is not the HMAC of
\* `order_id|payment_id` under the key secret, and a phonepe-callback whose
\* X-VERIFY header is not the checksum of its body, is answered 400; no stored
\* order changes and no email is delivered.
C4_BadSignatureRejected ==
  [][\A p \in Procs :
       /\ (/\ rev \in {"razorpay", "deferred"}
           /\ Takes(p, "verify")
           /\ proc'[p].req.sig # Hmac(KeySecret, proc'[p].req.ref, proc'[p].req.pid))
          => Rejected(p, {400})
       /\ (/\ rev = "phonepe"
           /\ Takes(p, "callback")
           /\ proc'[p].req.xVerify # Checksum(SaltKey, proc'[p].req.response))
          => Rejected(p, {400})]_vars

\* A forged signature was presented for the reference pair of a Pending order.
C4_ForgedOnPending ==
  \E p \in Procs :
    /\ rev = "razorpay"
    /\ proc[p].kind = "verify" /\ proc[p].pc = "done" /\ proc[p].resp = 400
    /\ proc[p].req.sig # Hmac(KeySecret, proc[p].req.ref, proc[p].req.pid)
    /\ DocOf(proc[p].req.orderId) # 0
    /\ orders[DocOf(proc[p].req.orderId)].paymentStatus = "Pending"
    /\ orders[DocOf(proc[p].req.orderId)].razorpayOrderId = proc[p].req.ref
    /\ rzp[proc[p].req.ref].paid

\* C5: every stored order that a gateway payment has put in the paid state
\* was paid the amount of its stored total: the gateway order its reference
\* names was created for that amount.
C5_PaidAmountIsTotal ==
  \A d \in Stored :
    /\ (rev = "razorpay" /\ orders[d].paymentStatus = "Success"
          /\ orders[d].razorpayPaymentId # 0)
         => rzp[orders[d].razorpayOrderId].amount = GatewayAmount(orders[d].total)
    /\ (rev = "deferred" /\ orders[d].paymentStatus = "Paid" /\ orders[d].paymentId # 0)
         => Abs(rzp[orders[d].razorpayOrderId].amount - orders[d].total) <= 1

\* C6: a verify request that names a stored order and a gateway reference
\* other than the one stored on it is rejected (400 by verify-razorpay-payment,
\* 404 by verify-phonepe-payment) and no stored order changes, also when the
\* signature fits the submitted pair.
C6_ReferenceMismatchRejected ==
  [][\A p \in Procs :
       LET d == DocOf(proc'[p].req.orderId)
       IN /\ (/\ rev = "razorpay"
               /\ Takes(p, "verify")
               /\ d # 0
               /\ orders[d].razorpayOrderId # proc'[p].req.ref)
              => Rejected(p, {400})
          /\ (/\ rev = "phonepe"
               /\ Takes(p, "verify")
               /\ d # 0
               /\ orders[d].phonepeTransactionId # proc'[p].req.ref)
              => Rejected(p, {400, 404})]_vars

\* A pair the gateway signed for another order was rejected for a Pending
\* order holding its own reference.
C6_SignedPairForOtherReference ==
  \E p \in Procs :
    /\ rev = "razorpay"
    /\ proc[p].kind = "verify" /\ proc[p].pc = "done" /\ proc[p].resp = 400
    /\ proc[p].req.sig = Hmac(KeySecret, proc[p].req.ref, proc[p].req.pid)
    /\ proc[p].id # 0
    /\ orders[proc[p].id].paymentStatus = "Pending"
    /\ orders[proc[p].id].razorpayOrderId \notin {0, proc[p].req.ref}
    /\ rzp[proc[p].req.ref].receipt # proc[p].req.orderId

\* C7: once a stored order holds a gateway reference (razorpayOrderId,
\* phonepeTransactionId), no step replaces it with another one.
C7_ReferenceSetOnce ==
  [][\A d \in DocIds :
       /\ (rev = "razorpay" /\ orders[d] # NoDoc /\ orders[d].razorpayOrderId # 0
             /\ orders'[d] # NoDoc)
            => orders'[d].razorpayOrderId = orders[d].razorpayOrderId
       /\ (rev = "phonepe" /\ orders[d] # NoDoc /\ orders[d].phonepeTransactionId # 0
             /\ orders'[d] # NoDoc)
            => orders'[d].phonepeTransactionId = orders[d].phonepeTransactionId]_vars

\* C8: no two stored orders hold the same orderId, and a creation request
\* whose orderId is already stored is answered 400 and changes no stored order.
C8_OrderIdUnique ==
  /\ [](\A d, e \in Stored : orders[d].orderId = orders[e].orderId => d = e)
  /\ [][\A p \in Procs :
         (/\ rev \in {"razorpay", "phonepe"}
          /\ Takes(p, "create")
          /\ \E d \in Stored : orders[d].orderId = proc'[p].req.orderId)
         => Rejected(p, {400})]_vars

\* A creation that passed every validation was refused for its orderId alone.
C8_ValidDuplicateRefused ==
  \E p \in Procs :
    /\ rev = "razorpay"
    /\ proc[p].kind = "create" /\ proc[p].pc = "done" /\ proc[p].resp = 400
    /\ CreateRejection(proc[p].req.body, validateOrderTotals(proc[p].req.body)) = ""
    /\ validateOrderTotals(proc[p].req.body).calculatedTotal = proc[p].req.body.total
    /\ \E d \in Stored : orders[d].orderId = proc[p].req.orderId

\* C9: an order that POST /orders answers with 201 has a total within 0.01 of
\* sum(price * quantity) + shipping cost - coupon discount.
C9_AcceptedTotalMatches ==
  \A p \in Procs :
    (rev = "razorpay" /\ proc[p].kind = "create" /\ proc[p].pc = "done"
      /\ proc[p].resp = 201)
    => Abs(proc[p].doc.total
           - (Subtotal(proc[p].doc.items) + proc[p].doc.shipCost
              - proc[p].doc.couponDiscount)) <= 1

ExpiredPending(d) ==
  /\ orders[d] # NoDoc
  /\ orders[d].paymentStatus = "Pending"
  /\ now - orders[d].createdAt > ORDER_TIMEOUT_MINUTES

C11_FailedOnlyOnReportedFailure ==
  [][\A d \in DocIds :
       (/\ rev = "phonepe"
        /\ orders[d] # NoDoc /\ orders'[d] # NoDoc
        /\ orders[d].paymentStatus # "Failed"
        /\ orders'[d].paymentStatus = "Failed")
       => /\ orders[d].phonepeTransactionId \in 1..Len(pp)
          /\ pp[orders[d].phonepeTransactionId].state = "FAILED"]_vars

\* C12: with requests handled one at a time, at most one confirmation email
\* is delivered per order, and a request that delivered one is the request
\* that stored the order's paid status.
C12_OneEmailPerOrder ==
  /\ \A o \in OrderIds : mails[o] <= 1
  /\ \A p \in Procs :
       (rev = "razorpay" /\ proc[p].pc = "done" /\ proc[p].mailed) => proc[p].wrote

\* Slot p is at its sendEmail call and the call fails in this step.
MailFails(p, kind) ==
  /\ rev = "razorpay"
  /\ proc[p].kind = kind /\ proc[p].pc = "mail"
  /\ proc'[p].pc # "mail"
  /\ ~proc'[p].mailed

StoredPaid(p) ==
  /\ orders'[proc[p].id] # NoDoc
  /\ orders'[proc[p].id].paymentStatus = "Success"

\* C13: a failed sendEmail changes no stored order and is not answered as an
\* error: the cash-on-delivery creation answers 201 and the verification 200
\* with the order stored in the paid state, and force-update goes on to its
\* save, which answers 200 with the order in the paid state when it is applied.
C13_MailFailureNotPropagated ==
  [][\A p \in Procs :
       /\ MailFails(p, "create")
            => orders' = orders /\ proc'[p].pc = "done" /\ proc'[p].resp = 201
               /\ StoredPaid(p)
       /\ MailFails(p, "verify")
            => orders' = orders /\ proc'[p].pc = "done" /\ proc'[p].resp = 200
               /\ StoredPaid(p)
       /\ MailFails(p, "force")
            => orders' = orders /\ proc'[p].pc = "save"
       /\ (/\ rev = "razorpay"
           /\ proc[p].kind = "force" /\ proc[p].pc = "save"
           /\ ~proc[p].mailed /\ ~proc[p].doc.emailSent
           /\ proc'[p].wrote)
            => proc'[p].pc = "done" /\ proc'[p].resp = 200 /\ StoredPaid(p)]_vars

\* A verification answered 200 with the order paid although its email failed.
C13_PaidWithoutEmail ==
  \E p \in Procs :
    /\ rev = "razorpay"
    /\ proc[p].kind = "verify" /\ proc[p].pc = "done" /\ proc[p].resp = 200
    /\ ~proc[p].mailed /\ ~proc[p].doc.emailSent
    /\ mails[proc[p].req.orderId] = 0
    /\ orders[proc[p].id].paymentStatus = "Success"
    /\ ~orders[proc[p].id].emailSent

\* The stored order does not pass the re-validation: its shipping cost is not
\* the expected one, or its total is off by more than the tolerance.
Drifted(o) ==
  LET totals == validateOrderTotals(o)
  IN \/ IsFreeShipping(o.couponCode) /\ o.shipCost # 0
     \/ ~IsFreeShipping(o.couponCode) /\ o.shipCost # totals.expectedShippingCost
     \/ Abs(totals.calculatedTotal - o.total) > 1

\* C14: an initiate-razorpay-payment request that finds a Pending order whose
\* stored shipping cost or total does not pass the re-validation is answered
\* 400 in the step that reads it, with no gateway order created and no stored
\* order changed.
C14_DriftedOrderRejected ==
  [][\A p \in Procs :
       (/\ rev = "razorpay"
        /\ Takes(p, "initiate")
        /\ proc'[p].id # 0
        /\ Drifted(orders[proc'[p].id]))
       => /\ Rejected(p, {400})
          /\ rzp' = rzp]_vars

\* A Pending order inside its validity window, stored with shipping 80 on 850
\* rupees of items, was refused with 400 and no gateway order exists.
C14_DriftRefused ==
  \E p \in Procs :
    /\ rev = "razorpay"
    /\ proc[p].kind = "initiate" /\ proc[p].pc = "done" /\ proc[p].resp = 400
    /\ proc[p].id # 0
    /\ Drifted(proc[p].doc)
    /\ isOrderValid(proc[p].doc.createdAt, now)
    /\ rzp = << >>

\* C15: a well-formed initiate request for an orderId that no stored order
\* holds is answered 404, and one for a stored order that is not Pending or is
\* older than the validity window is answered 400; in both cases no gateway
\* order or transaction is created and no stored order changes.
C15_InitiateRefusals ==
  [][\A p \in Procs :
       (/\ rev \in {"razorpay", "phonepe"}
        /\ Takes(p, "initiate")
        /\ proc'[p].req.orderId # "")
       => LET d == DocOf(proc'[p].req.orderId)
          IN /\ d = 0 => Rejected(p, {404}) /\ rzp' = rzp /\ pp' = pp
             /\ (/\ d # 0
                 /\ \/ orders[d].paymentStatus # "Pending"
                    \/ rev = "razorpay" /\ ~isOrderValid(orders[d].createdAt, now))
                => Rejected(p, {400}) /\ rzp' = rzp /\ pp' = pp]_vars

\* Document d is inserted in this step.
Inserted(d) == orders[d] = NoDoc /\ orders'[d] # NoDoc

\* C16: a document inserted by the order-creation handler holds the paid
\* status when the order is cash on delivery and Pending otherwise, and no
\* step inserts a document with a paymentStatus other than Pending or paid.
C16_InitialStatus ==
  [][\A d \in DocIds :
       Inserted(d)
       => /\ orders'[d].paymentStatus \in {"Pending", "Success", "Paid"}
          /\ \A p \in Procs :
               Takes(p, "create")
               => IF orders'[d].paymentMethod = "COD"
                  THEN orders'[d].paymentStatus \in {"Success", "Paid"}
                  ELSE orders'[d].paymentStatus = "Pending"]_vars

\* C17: an initiate request that has ended after the gateway created an order
\* or transaction for it leaves that reference recorded on the stored order.
C17_ReferenceRecorded ==
  \A p \in Procs :
    (/\ proc[p].kind = "initiate" /\ proc[p].pc = "done"
     /\ proc[p].id # 0
     /\ orders[proc[p].id] # NoDoc)
    => /\ rev = "razorpay"
            => orders[proc[p].id].razorpayOrderId = proc[p].doc.razorpayOrderId
       /\ rev = "phonepe"
            => orders[proc[p].id].phonepeTransactionId = proc[p].doc.phonepeTransactionId

\* C18: a document leaves the store only when its paymentStatus is Pending or
\* Failed and it was created more than 24 hours before: a paid order, or an
\* order younger than 24 hours, is never deleted by the cleanup.
C18_CleanupDeletesOnlyStaleUnpaid ==
  [][\A d \in DocIds :
       (orders[d] # NoDoc /\ orders'[d] = NoDoc)
       => /\ orders[d].paymentStatus \in {"Pending", "Failed"}
          /\ now - orders[d].createdAt > RetentionMinutes]_vars

\* The cleanup has deleted the first order that was stored.
C18_StaleOrderDeleted ==
  /\ rev = "razorpay"
  /\ nextDoc > 1
  /\ orders[1] = NoDoc
  /\ now > RetentionMinutes

\* The creation request of 850 rupees of items sent with the given shipping
\* cost and total, taken by slot p in this step for an orderId not yet stored.
Creates850(p, shipCost, total) ==
  /\ rev = "razorpay"
  /\ Takes(p, "create")
  /\ proc'[p].req.body = Body(<<Item(85000, 1)>>, shipCost, "", "Razorpay", total)
  /\ ~DuplicateKey(proc'[p].req.orderId)

StoredPending(p) ==
  /\ proc'[p].resp = 201
  /\ proc'[p].id # 0
  /\ orders'[proc'[p].id].paymentStatus = "Pending"
  /\ orders'[proc'[p].id].total = proc'[p].req.body.total

C20_OneCreationCall ==
  [][rev = "razorpay" =>
     /\ Len(rzp') # Len(rzp)
        => \E p \in Procs :
             /\ proc[p].kind = "initiate" /\ proc[p].pc = "gateway"
             /\ proc'[p].pc = "save"
             /\ Len(rzp') = Len(rzp) + 1
             /\ rzp'[Len(rzp')].receipt = proc[p].doc.orderId
             /\ rzp'[Len(rzp')].receipt = proc[p].req.orderId
     /\ \A p \in Procs :
          /\ (proc[p].pc = "gateway" /\ proc'[p] # proc[p])
             => \/ proc'[p].pc = "save" /\ Len(rzp') = Len(rzp) + 1
                \/ proc'[p].pc = "done" /\ proc'[p].resp = 500 /\ rzp' = rzp
          /\ (proc'[p].pc = "gateway" /\ proc[p].pc # "gateway")
             => proc[p].pc = "idle"]_vars

\* A request is past its creation call and the gateway holds the one order
\* it created, with the orderId as receipt.
C20_GatewayOrderCreated ==
  \E p \in Procs :
    /\ rev = "razorpay"
    /\ proc[p].kind = "initiate" /\ proc[p].pc = "save"
    /\ Len(rzp) = 1
    /\ rzp[1].receipt = proc[p].req.orderId

\* C21: a payment initiation or status verification whose gateway call fails
\* is answered 502 and changes no stored order: in the Razorpay revision the
\* request that leaves its creation call without a gateway order, and in the
\* PhonePe revision the well-formed request that found its order and ends
\* without a transaction created or a status stored.
C21_GatewayFailureIs502 ==
  [][\A p \in Procs :
       /\ (/\ rev = "razorpay"
           /\ proc[p].kind = "initiate" /\ proc[p].pc = "gateway"
           /\ proc'[p].pc = "done")
          => proc'[p].resp = 502 /\ orders' = orders
       /\ (/\ rev = "phonepe"
           /\ Takes(p, "initiate")
           /\ proc'[p].req.orderId # "" /\ proc'[p].req.amount # 0
           /\ DocOf(proc'[p].req.orderId) # 0
           /\ orders[DocOf(proc'[p].req.orderId)].paymentStatus = "Pending"
           /\ Len(pp') = Len(pp))
          => proc'[p].resp = 502 /\ orders' = orders
       /\ (/\ rev = "phonepe"
           /\ Takes(p, "verify")
           /\ proc'[p].resp \notin {200, 400, 404})
          => proc'[p].resp = 502 /\ orders' = orders]_vars

\* C22: no step changes the orderId, the items or the total of a stored
\* order: initiation, verification and force-update leave them as stored.
C22_OrderDataImmutable ==
  [][\A d \in DocIds :
       (orders[d] # NoDoc /\ orders'[d] # NoDoc)
       => /\ orders'[d].orderId = orders[d].orderId
          /\ orders'[d].items = orders[d].items
          /\ orders'[d].total = orders[d].total]_vars

\* An order stored with total 930 for 850 rupees of items was paid by
\* force-update and still holds the total it was stored with.
C22_PaidWithStoredTotal ==
  \E d \in Stored :
    /\ rev = "razorpay"
    /\ orders[d].paymentStatus = "Success"
    /\ orders[d].total # validateOrderTotals(orders[d]).calculatedTotal
    /\ orders[d].total = 93000

\* C23: a document leaves the store only while it is Pending with payment
\* method Razorpay: an order that has reached the paid state is not deleted,
\* whatever verification or force-update runs beside the DELETE request.
C23_OnlyPendingDeleted ==
  [][\A d \in DocIds :
       (orders[d] # NoDoc /\ orders'[d] = NoDoc)
       => /\ orders[d].paymentStatus = "Pending"
          /\ orders[d].paymentMethod = "Razorpay"]_vars

\* C24: a verify-razorpay-payment request for a stored order created more
\* than 30 minutes before it is answered 400 in the step that reads the
\* order, and no stored order changes: the order keeps its paymentStatus and
\* receives no razorpayPaymentId.
C24_ExpiredOrderNotPaid ==
  [][\A p \in Procs :
       (/\ rev = "razorpay"
        /\ Takes(p, "verify")
        /\ DocOf(proc'[p].req.orderId) # 0
        /\ now - orders[DocOf(proc'[p].req.orderId)].createdAt > ORDER_TIMEOUT_MINUTES)
       => Rejected(p, {400})]_vars

\* A signed report for the recorded gateway order, which is paid, was refused
\* because the order is older than 30 minutes; the order is still Pending.
C24_PaidTooLate ==
  \E p \in Procs :
    /\ rev = "razorpay"
    /\ proc[p].kind = "verify" /\ proc[p].pc = "done" /\ proc[p].resp = 400
    /\ proc[p].id # 0
    /\ orders[proc[p].id] # NoDoc
    /\ orders[proc[p].id].paymentStatus = "Pending"
    /\ orders[proc[p].id].razorpayPaymentId = 0
    /\ orders[proc[p].id].razorpayOrderId = proc[p].req.ref
    /\ proc[p].req.ref \in 1..Len(rzp)
    /\ rzp[proc[p].req.ref].paid
    /\ now - orders[proc[p].id].createdAt > ORDER_TIMEOUT_MINUTES

\* C25: in the Razorpay revision every stored order with emailSent true has
\* the paid paymentStatus.
C25_EmailSentOnlyOnPaid ==
  \A d \in Stored :
    (rev = "razorpay" /\ orders[d].emailSent) => orders[d].paymentStatus = "Success"

\* A Razorpay order was confirmed and its email recorded as sent.
C25_EmailRecorded ==
  \E d \in Stored :
    /\ rev = "razorpay"
    /\ orders[d].paymentMethod = "Razorpay"
    /\ orders[d].emailSent
    /\ orders[d].paymentStatus = "Success"
    /\ mails[orders[d].orderId] > 0

\* The standard shipping charge for a subtotal, as the tiers are stated: free
\* from 800 rupees, 50 rupees from 500, 80 rupees below.
TierCost(subtotal) ==
  IF subtotal >= 80000 THEN 0
  ELSE IF subtotal >= 50000 THEN 5000
  ELSE 8000

\* Slot p takes a creation request in this step and stores its order.
CreatedBy(p) ==
  /\ rev = "razorpay"
  /\ Takes(p, "create")
  /\ proc'[p].resp = 201

\* C26: a creation request with the coupon FREESHIPPING, in any case, stores
\* an order only if its shipping cost is 0 and its total is within 0.01 of
\* max(1, subtotal - TierCost(subtotal)); the stored coupon discount is
\* TierCost(subtotal).
C26_FreeShippingTotals ==
  [][\A p \in Procs :
       (/\ CreatedBy(p)
        /\ proc'[p].req.body.couponCode \in {"FREESHIPPING", "freeshipping"})
       => LET body == proc'[p].req.body
              subtotal == Subtotal(body.items)
          IN /\ body.shipCost = 0
             /\ Abs(body.total - Max(100, subtotal - TierCost(subtotal))) <= 1
             /\ orders'[proc'[p].id].couponDiscount = TierCost(subtotal)
             /\ orders'[proc'[p].id].shipCost = 0]_vars

\* An order of 600 rupees sent with the coupon in lower case and total 550
\* was stored with a discount of 50.
C26_LowerCaseCouponStored ==
  \E p \in Procs :
    /\ proc[p].kind = "create" /\ proc[p].pc = "done" /\ proc[p].resp = 201
    /\ proc[p].req.body.couponCode = "freeshipping"
    /\ proc[p].req.body.total = 55000
    /\ orders[proc[p].id].couponDiscount = 5000

\* C27: a creation request without the FREESHIPPING coupon stores an order
\* only if its shipping cost is the tiered charge for its subtotal; with any
\* other shipping cost it is answered 400 and nothing is stored.
C27_TieredShipping ==
  [][\A p \in Procs :
       (/\ rev = "razorpay"
        /\ Takes(p, "create")
        /\ proc'[p].req.body.couponCode \notin {"FREESHIPPING", "freeshipping"})
       => LET body == proc'[p].req.body
          IN /\ proc'[p].resp = 201 => body.shipCost = TierCost(Subtotal(body.items))
             /\ body.shipCost # TierCost(Subtotal(body.items)) => Rejected(p, {400})]_vars

\* An order of exactly 800 rupees sent with shipping cost 0 is stored, and
\* the same order sent with 50 rupees of shipping is refused.
C27_TierBoundaryStored ==
  /\ \E d \in Stored : orders[d].total = 80000 /\ orders[d].shipCost = 0
                       /\ orders[d].couponCode = ""
  /\ \E p \in Procs :
       /\ proc[p].kind = "create" /\ proc[p].pc = "done" /\ proc[p].resp = 400
       /\ proc[p].req.body = Body(<<Item(80000, 1)>>, 5000, "", "Razorpay", 85000)

\* C28: a force-update request for a stored order that is in the paid state
\* is answered 400 in the step that reads it, no stored order changes and no
\* email is sent; a force-update request goes on to its email and save only
\* for an order it read in another state.
C28_ForceUpdateRefusedOnPaid ==
  [][\A p \in Procs :
       (/\ rev = "razorpay"
        /\ Takes(p, "force")
        /\ DocOf(proc'[p].req.orderId) # 0)
       => IF orders[DocOf(proc'[p].req.orderId)].paymentStatus = "Success"
          THEN Rejected(p, {400})
          ELSE proc'[p].pc \in {"mail", "save"}]_vars

\* A force-update request for an order already paid was answered 400; the
\* order holds no record of an email and none was sent for it.
C28_ForceOnPaidRefused ==
  \E p \in Procs :
    /\ rev = "razorpay"
    /\ proc[p].kind = "force" /\ proc[p].pc = "done" /\ proc[p].resp = 400
    /\ proc[p].id # 0
    /\ orders[proc[p].id].paymentStatus = "Success"
    /\ ~orders[proc[p].id].emailSent
    /\ mails[proc[p].req.orderId] = 0

\* The waits connectDB(5, 5000) sets between attempts, in order.
BackoffWaits == <<5000, 10000, 20000, 40000, 80000>>

\* C29: connectDB called with retries 5 and delay 5000 makes at most six
\* connection attempts; the waits it sets before the next attempt are 5000,
\* 10000, 20000, 40000, 80000 ms in that order, one per failure; once an
\* attempt succeeded nothing more is attempted; and with the connection
\* string defined the process exits exactly when the sixth attempt failed.
C29_BoundedBackoff ==
  /\ [](/\ db.attempts <= 6
        /\ Len(db.waits) <= Len(BackoffWaits)
        /\ db.waits = SubSeq(BackoffWaits, 1, Len(db.waits))
        /\ db.phase = "wait" => Len(db.waits) = db.attempts
        /\ (db.uri /\ db.phase = "exited") => (db.attempts = 6 /\ Len(db.waits) = 5)
        /\ (db.attempts = 6 /\ db.phase # "connected") => db.phase = "exited")
  /\ [][db.phase \in {"connected", "exited"} => db' = db]_vars

\* Six attempts failed one after the other, with the five doubling waits
\* between them, and the process exited.
C29_ExitedAfterSix ==
  /\ db.phase = "exited"
  /\ db.uri
  /\ db.attempts = 6
  /\ db.waits = <<5000, 10000, 20000, 40000, 80000>>

\* C30: global.clients holds exactly the /api/order-updates connections that
\* presented a token signed with JWT_SECRET and not expired and that have not
\* closed; a connection without a token or with a token that does not verify
\* was answered 401 and is not in the set.
C30_ClientsAreOpenAuthorised ==
  /\ clients = {c \in ConnIds : /\ conns[c].socket = "open"
                                /\ conns[c].token.key = "JWT_SECRET"
                                /\ ~conns[c].token.expired}
  /\ \A c \in ConnIds :
       /\ conns[c].socket = "open" => c \in clients
       /\ (conns[c].socket # "none"
             /\ (conns[c].token.key # "JWT_SECRET" \/ conns[c].token.expired))
          => (conns[c].status = 401 /\ conns[c].socket = "closed")
       /\ (conns[c].socket # "none" /\ conns[c].token.key = "JWT_SECRET"
             /\ ~conns[c].token.expired)
          => conns[c].status = 200

\* One client is registered, one that was registered has closed and is gone
\* from the set, and one that presented an expired token was refused.
C30_ClientsComeAndGo ==
  \E a, b, c \in ConnIds :
    /\ clients = {a}
    /\ conns[a].socket = "open"
    /\ conns[b].socket = "closed" /\ conns[b].status = 200
    /\ conns[c].status = 401 /\ conns[c].token.expired
====
